---- MODULE Spec2Model ----
(***************************************************************************)
(* convert2avif: converter.py.  A Tk application that discovers images     *)
(* under a source path and converts each to AVIF in a background thread.   *)
(*                                                                         *)
(* Strings are sequences of one-character strings, a Path is the sequence  *)
(* of its components (pathlib's parts), all relative to the working        *)
(* directory, which is the empty Path (Path("") == Path(".")).             *)
(***************************************************************************)
EXTENDS Integers, Sequences, FiniteSets, TLC

VARIABLES
    fs,             \* regular files of the filesystem: Path -> content
    dirs,           \* directories of the filesystem: set of Path
    src_var,        \* tk.StringVar: the Source entry
    dst_var,        \* tk.StringVar: the Destination entry
    recursive_var,  \* tk.BooleanVar
    overwrite_var,  \* tk.BooleanVar
    keep_exif_var,  \* tk.BooleanVar
    lossless_var,   \* tk.BooleanVar
    quality_var,    \* tk.IntVar
    speed_var,      \* tk.IntVar
    prefix_var,     \* tk.StringVar
    status_var,     \* tk.StringVar shown under the progress bar
    prog,           \* ttk.Progressbar: [value, maximum]
    btn_convert,    \* state of the Convert button
    dialog,         \* the last messagebox shown, or what the handler did
    afterq,         \* callbacks queued with widget.after(0, ...), FIFO
    threads,        \* the worker threads started so far, in order of start
    faults,         \* number of OS errors injected so far
    edits,          \* number of edits of the form made so far
    call,           \* arguments of a direct call of a module-level function
    ret             \* its return value

vars == <<fs, dirs, src_var, dst_var, recursive_var, overwrite_var,
          keep_exif_var, lossless_var, quality_var, speed_var, prefix_var,
          status_var, prog, btn_convert, dialog, afterq, threads, faults,
          edits, call, ret>>

formVars == <<src_var, dst_var, recursive_var, overwrite_var, keep_exif_var,
              lossless_var, quality_var, speed_var, prefix_var>>

----------------------------------------------------------------------------
(* Characters and strings                                                  *)

\* ord(c) of the characters the model uses
Ord ==
    " " :> 32 @@ "-" :> 45 @@ "." :> 46 @@ "/" :> 47 @@ "2" :> 50 @@
    "3" :> 51 @@ "4" :> 52 @@ "5" :> 53 @@ "G" :> 71 @@ "J" :> 74 @@
    "P" :> 80 @@ "_" :> 95 @@
    "a" :> 97 @@ "b" :> 98 @@ "c" :> 99 @@ "d" :> 100 @@ "e" :> 101 @@
    "f" :> 102 @@ "g" :> 103 @@ "i" :> 105 @@ "j" :> 106 @@ "m" :> 109 @@
    "n" :> 110 @@ "o" :> 111 @@ "p" :> 112 @@ "s" :> 115 @@ "t" :> 116 @@
    "v" :> 118 @@ "w" :> 119 @@ "x" :> 120 @@ "y" :> 121 @@ "z" :> 122

\* str.lower() on one character
LowerChar(c) ==
    CASE c = "G" -> "g"
      [] c = "J" -> "j"
      [] c = "P" -> "p"
      [] OTHER -> c

\* str.lower()
lower(s) == [i \in 1..Len(s) |-> LowerChar(s[i])]

\* str < str: lexicographic by code point
RECURSIVE StrLess(_, _)
StrLess(a, b) ==
    IF a = <<>> THEN b # <<>>
    ELSE IF b = <<>> THEN FALSE
    ELSE IF Ord[Head(a)] # Ord[Head(b)] THEN Ord[Head(a)] < Ord[Head(b)]
    ELSE StrLess(Tail(a), Tail(b))

\* str.strip(): leading and trailing blanks removed
RECURSIVE strip(_)
strip(s) ==
    IF s = <<>> THEN s
    ELSE IF Head(s) = " " THEN strip(Tail(s))
    ELSE IF s[Len(s)] = " " THEN strip(SubSeq(s, 1, Len(s) - 1))
    ELSE s

\* str(n) for the small positive integers the collision counter takes
Digits == <<"0", "1", "2", "3", "4", "5", "6", "7", "8", "9">>

RECURSIVE IntToStr(_)
IntToStr(n) ==
    IF n < 10 THEN <<Digits[n + 1]>>
    ELSE IntToStr(n \div 10) \o <<Digits[(n % 10) + 1]>>

\* s.rfind("."), 1-based, 0 when there is none
RECURSIVE RFindDot(_)
RFindDot(s) ==
    IF s = <<>> THEN 0
    ELSE IF s[Len(s)] = "." THEN Len(s)
    ELSE RFindDot(SubSeq(s, 1, Len(s) - 1))

----------------------------------------------------------------------------
(* pathlib                                                                 *)

\* Path(text): the text split at "/", empty and "." components dropped
\* (expanduser leaves a text without "~" as it is)
RECURSIVE ParsePath(_, _)
ParsePath(text, cur) ==
    LET done == IF cur = <<>> \/ cur = <<".">> THEN <<>> ELSE <<cur>>
    IN  IF text = <<>> THEN done
        ELSE IF Head(text) = "/" THEN done \o ParsePath(Tail(text), <<>>)
        ELSE ParsePath(Tail(text), Append(cur, Head(text)))

Path(text) == ParsePath(text, <<>>)

\* PurePath.name
name(p) == IF p = <<>> THEN <<>> ELSE p[Len(p)]

\* PurePath.suffix: name[i:] if 0 < i < len(name) - 1 (0-based i) else ""
suffix(p) ==
    LET nm == name(p)
        i == RFindDot(nm)
    IN  IF 1 < i /\ i < Len(nm) THEN SubSeq(nm, i, Len(nm)) ELSE <<>>

\* PurePath.stem
stem(p) ==
    LET nm == name(p)
        i == RFindDot(nm)
    IN  IF 1 < i /\ i < Len(nm) THEN SubSeq(nm, 1, i - 1) ELSE nm

\* str(path)
RECURSIVE PathStr(_)
PathStr(p) ==
    IF p = <<>> THEN <<".">>
    ELSE IF Len(p) = 1 THEN p[1]
    ELSE p[1] \o <<"/">> \o PathStr(Tail(p))

\* PurePath.__lt__: the parts compared as Python lists of str
RECURSIVE PathLess(_, _)
PathLess(p, q) ==
    IF p = <<>> THEN q # <<>>
    ELSE IF q = <<>> THEN FALSE
    ELSE IF Head(p) # Head(q) THEN StrLess(Head(p), Head(q))
    ELSE PathLess(Tail(p), Tail(q))

\* dst_dir / "name"
Join(dir, nm) == dir \o Path(nm)

is_file(p) == p \in DOMAIN fs
is_dir(p) == p \in dirs
exists(p) == is_file(p) \/ is_dir(p)

IsPrefix(d, p) == Len(d) <= Len(p) /\ SubSeq(p, 1, Len(d)) = d

\* Path.glob("*"): the entries of directory d
glob(d) == {p \in DOMAIN fs \cup dirs : IsPrefix(d, p) /\ Len(p) = Len(d) + 1}

\* Path.rglob("*"): the entries at any depth below d
rglob(d) == {p \in DOMAIN fs \cup dirs : IsPrefix(d, p) /\ Len(p) > Len(d)}

\* sorted(list of Path)
RECURSIVE sorted(_)
sorted(S) ==
    IF S = {} THEN <<>>
    ELSE LET m == CHOOSE x \in S : \A y \in S \ {x} : PathLess(x, y)
         IN  <<m>> \o sorted(S \ {m})

----------------------------------------------------------------------------
(* converter.py, module level                                              *)

COMMON_EXTS ==
    { <<".", "j", "p", "g">>, <<".", "j", "p", "e", "g">>,
      <<".", "p", "n", "g">>, <<".", "w", "e", "b", "p">>,
      <<".", "b", "m", "p">>, <<".", "t", "i", "f">>,
      <<".", "t", "i", "f", "f">>, <<".", "g", "i", "f">> }

\* the extension test without .lower()
HasCommonExtCaseSensitive(p) == suffix(p) \in COMMON_EXTS

\* the test of lines 40 and 44
HasCommonExt(p) == lower(suffix(p)) \in COMMON_EXTS

collect_images(src, recursive) ==
    IF is_file(src) THEN (IF HasCommonExt(src) THEN <<src>> ELSE <<>>)
    ELSE IF ~is_dir(src) THEN <<>>
    ELSE LET it == IF recursive THEN rglob(src) ELSE glob(src)
         IN  sorted({p \in it : is_file(p) /\ HasCommonExt(p)})

prepare_mode(mode) == IF mode \in {"RGBA", "LA"} THEN "RGBA" ELSE "RGB"

\* save_avif with the ICC profile under the keep_exif flag as well
save_avif_IccGated(info, quality, speed, lossless, keep_exif) ==
    LET params == [format |-> "AVIF", quality |-> quality, speed |-> speed,
                   lossless |-> lossless]
        withExif == IF keep_exif /\ "exif" \in DOMAIN info
                    THEN ("exif" :> info["exif"]) @@ params
                    ELSE params
    IN  IF keep_exif /\ "icc_profile" \in DOMAIN info
        THEN ("icc_profile" :> info["icc_profile"]) @@ withExif
        ELSE withExif

\* the params dict save_avif hands to im.save
save_avif(info, quality, speed, lossless, keep_exif) ==
    LET params == [format |-> "AVIF", quality |-> quality, speed |-> speed,
                   lossless |-> lossless]
        withExif == IF keep_exif /\ "exif" \in DOMAIN info
                    THEN ("exif" :> info["exif"]) @@ params
                    ELSE params
    IN  IF "icc_profile" \in DOMAIN info
        THEN ("icc_profile" :> info["icc_profile"]) @@ withExif
        ELSE withExif

----------------------------------------------------------------------------
(* File contents                                                           *)

\* a source image: what Image.open / im.load make of it
Img(id, ok, mode, info) ==
    [kind |-> "img", id |-> id, ok |-> ok, mode |-> mode, info |-> info]

\* any other file
Other == [kind |-> "other"]

\* what im.save(out, **params) writes for the image im2
Avif(im2, params) ==
    [kind |-> "avif", id |-> im2.id, mode |-> im2.mode, params |-> params]

NoImage == [id |-> "none", mode |-> "none", info |-> <<>>]
NoPath == <<<<"?">>>>

Exif1 == "exif" :> "E1"
Icc1 == "icc_profile" :> "I1"

\* names
N_s == <<"s">>
N_o == <<"o">>
N_p == <<"p">>
N_zz == <<"z", "z">>
N_a_png == <<"a", ".", "p", "n", "g">>
N_a_JPG == <<"a", ".", "J", "P", "G">>
N_b_gif == <<"b", ".", "g", "i", "f">>
N_n_txt == <<"n", ".", "t", "x", "t">>

----------------------------------------------------------------------------
(* Bounds                                                                  *)

MaxThreads == 2     \* worker threads started in one behaviour
MaxFaults == 1      \* OS errors injected in one behaviour
MaxEdits == 1       \* edits of the form in one behaviour

\* texts typed into the entries
SrcTexts == { N_s, N_zz, N_s \o <<"/">> \o N_a_png }
DstTexts == { N_o, N_s \o <<"/">>, <<" ">>, N_s \o <<"/">> \o N_n_txt }
PrefixTexts == { N_p, <<>> }
QualityValues == { 80, 50 }

----------------------------------------------------------------------------
(* App.__init__                                                            *)

\* the working directory the application is started in
InitFs ==
    <<N_s, N_a_JPG>> :> Img("aJ", TRUE, "RGB", Exif1) @@
    <<N_s, N_a_png>> :> Img("ap", TRUE, "LA", Exif1 @@ Icc1) @@
    <<N_s, N_b_gif>> :> Img("bg", FALSE, "P", <<>>) @@
    <<N_s, N_n_txt>> :> Other

InitDirs == { <<>>, <<N_s>> }

InitForm ==
    /\ src_var = <<>>
    /\ dst_var = <<>>
    /\ recursive_var = TRUE
    /\ overwrite_var = FALSE
    /\ keep_exif_var = TRUE
    /\ lossless_var = FALSE
    /\ quality_var = 80
    /\ speed_var = 6
    /\ prefix_var = <<>>

InitApp ==
    /\ InitForm
    /\ status_var = <<"Idle">>
    /\ prog = [value |-> 0, maximum |-> 100]
    /\ btn_convert = "normal"
    /\ dialog = "none"
    /\ afterq = <<>>
    /\ threads = <<>>
    /\ faults = 0
    /\ edits = 0

NoCall == [fn |-> "none"]
NoRet == [done |-> FALSE, value |-> <<>>]

Init ==
    /\ fs = InitFs
    /\ dirs = InitDirs
    /\ InitApp
    /\ call = NoCall
    /\ ret = NoRet

----------------------------------------------------------------------------
(* convert_one, one step per call that reaches the codec or the filesystem *)

\* line 64: stem = f"{prefix}_{src.stem}" if prefix else src.stem
OutStem(prefix, src) ==
    IF prefix # <<>> THEN prefix \o <<"_">> \o stem(src) ELSE stem(src)

\* the target named after the source's own format
OutNameKeepsPng(st) == st \o <<".", "p", "n", "g">>

\* line 65: f"{stem}.avif"
OutName(st) == st \o <<".", "a", "v", "i", "f">>

\* line 69: f"{stem}_{n}.avif"
CandName(st, n) == st \o <<"_">> \o IntToStr(n) \o <<".", "a", "v", "i", "f">>

\* the test of line 66 without `and not overwrite`
MustProbeIgnoresOverwrite(out, overwrite) == exists(out)

\* line 66: the test that sends convert_one into the probe loop
MustProbe(out, overwrite) == exists(out) /\ ~overwrite

Item(T) == T.items[T.i]

\* a step of thread t that leaves every other thread alone
SetThread(t, T) == threads' = [threads EXCEPT ![t] = T]

\* lines 58-63: Image.open, im.load, prepare_mode inside try/except
Open(t) ==
    /\ t \in 1..Len(threads)
    /\ threads[t].pc = "open"
    /\ LET T == threads[t]
           src == Item(T)
           decodes == is_file(src) /\ fs[src].kind = "img" /\ fs[src].ok
       IN  IF decodes
           THEN SetThread(t, [T EXCEPT !.pc = "check",
                    !.im2 = [id |-> fs[src].id,
                             mode |-> prepare_mode(fs[src].mode),
                             info |-> fs[src].info]])
           ELSE SetThread(t, [T EXCEPT !.pc = "progress", !.msg = "Skip",
                                       !.im2 = NoImage])
    /\ UNCHANGED <<fs, dirs, formVars, status_var, prog, btn_convert, dialog,
                   afterq, faults, edits, call, ret>>

\* lines 64-66: the target path and the first out.exists()
Check(t) ==
    /\ t \in 1..Len(threads)
    /\ threads[t].pc = "check"
    /\ LET T == threads[t]
           out == Join(T.dst, OutName(OutStem(T.prefix, Item(T))))
       IN  IF MustProbe(out, T.overwrite)
           THEN SetThread(t, [T EXCEPT !.pc = "probe", !.out = out, !.n = 2])
           ELSE SetThread(t, [T EXCEPT !.pc = "save", !.out = out])
    /\ UNCHANGED <<fs, dirs, formVars, status_var, prog, btn_convert, dialog,
                   afterq, faults, edits, call, ret>>

\* lines 68-73: one turn of the while loop, with its cand.exists()
Probe(t) ==
    /\ t \in 1..Len(threads)
    /\ threads[t].pc = "probe"
    /\ LET T == threads[t]
           cand == Join(T.dst, CandName(OutStem(T.prefix, Item(T)), T.n))
       IN  IF ~exists(cand)
           THEN SetThread(t, [T EXCEPT !.pc = "save", !.out = cand])
           ELSE SetThread(t, [T EXCEPT !.n = T.n + 1])
    /\ UNCHANGED <<fs, dirs, formVars, status_var, prog, btn_convert, dialog,
                   afterq, faults, edits, call, ret>>

\* lines 66 and 70: Path.exists() re-raises every OSError but ENOENT,
\* ENOTDIR, EBADF and ELOOP (EACCES, ENAMETOOLONG, EIO, ...); the call is
\* inside no try block, so the exception leaves convert_one and the worker
ExistsRaises(t) ==
    /\ t \in 1..Len(threads)
    /\ threads[t].pc \in {"check", "probe"}
    /\ faults < MaxFaults
    /\ faults' = faults + 1
    /\ SetThread(t, [threads[t] EXCEPT !.pc = "crashed"])
    /\ UNCHANGED <<fs, dirs, formVars, status_var, prog, btn_convert, dialog,
                   afterq, edits, call, ret>>

\* lines 74-76: save_avif succeeds and convert_one returns None
Save(t) ==
    /\ t \in 1..Len(threads)
    /\ threads[t].pc = "save"
    /\ LET T == threads[t]
           params == save_avif(T.im2.info, T.quality, T.speed, T.lossless,
                               T.keep_exif)
       IN  /\ fs' = (T.out :> Avif(T.im2, params)) @@ fs
           /\ SetThread(t, [T EXCEPT !.pc = "progress", !.msg = "None"])
    /\ UNCHANGED <<dirs, formVars, status_var, prog, btn_convert, dialog,
                   afterq, faults, edits, call, ret>>

\* lines 77-78: im.save raises (the disk is full, the directory is not
\* writable, ...) and convert_one returns the "Failed ..." message; no
\* file is left behind
SaveFails(t) ==
    /\ t \in 1..Len(threads)
    /\ threads[t].pc = "save"
    /\ faults < MaxFaults
    /\ faults' = faults + 1
    /\ SetThread(t, [threads[t] EXCEPT !.pc = "progress", !.msg = "Failed"])
    /\ UNCHANGED <<fs, dirs, formVars, status_var, prog, btn_convert, dialog,
                   afterq, edits, call, ret>>

----------------------------------------------------------------------------
(* App.start_conversion.worker                                             *)

\* lines 239-242: msg is in hand; queue the progress callback, count the
\* error, set the status, and go round the for loop
Progress(t) ==
    /\ t \in 1..Len(threads)
    /\ threads[t].pc = "progress"
    /\ LET T == threads[t]
           N == Len(T.items)
       IN  /\ afterq' = Append(afterq, [kind |-> "prog", value |-> T.i, t |-> t])
           /\ status_var' = <<"progress", T.i, N>>
           /\ SetThread(t, [T EXCEPT
                  !.errors = IF T.msg # "None" THEN T.errors + 1 ELSE T.errors,
                  !.results = Append(T.results, T.msg),
                  !.notified = Append(T.notified, T.i),
                  !.i = T.i + 1,
                  !.pc = IF T.i < N THEN "open" ELSE "summary"])
    /\ UNCHANGED <<fs, dirs, formVars, prog, btn_convert, dialog, faults,
                   edits, call, ret>>

\* lines 243-244: the final status and the callback that re-enables Convert
Summary(t) ==
    /\ t \in 1..Len(threads)
    /\ threads[t].pc = "summary"
    /\ LET T == threads[t]
           N == Len(T.items)
       IN  /\ status_var' = <<"Done", N - T.errors, T.errors, T.dst>>
           /\ afterq' = Append(afterq, [kind |-> "btn", value |-> 0, t |-> t])
           /\ SetThread(t, [T EXCEPT !.pc = "done"])
    /\ UNCHANGED <<fs, dirs, formVars, prog, btn_convert, dialog, faults,
                   edits, call, ret>>

\* the Tk main loop runs the oldest callback queued with after(0, ...)
RunAfter ==
    /\ afterq # <<>>
    /\ LET cb == Head(afterq)
       IN  IF cb.kind = "prog"
           THEN prog' = [prog EXCEPT !.value = cb.value] /\ UNCHANGED btn_convert
           ELSE btn_convert' = "normal" /\ UNCHANGED prog
    /\ afterq' = Tail(afterq)
    /\ UNCHANGED <<fs, dirs, formVars, status_var, dialog, threads, faults,
                   edits, call, ret>>

----------------------------------------------------------------------------
(* App.start_conversion                                                    *)

\* the closure and the locals of one worker thread
NewThread(items, dst) ==
    [items |-> items, dst |-> dst, overwrite |-> overwrite_var,
     quality |-> quality_var, speed |-> speed_var, lossless |-> lossless_var,
     keep_exif |-> keep_exif_var, prefix |-> strip(prefix_var),
     i |-> 1, errors |-> 0, pc |-> "open", im2 |-> NoImage, out |-> NoPath,
     n |-> 0, msg |-> "None", results |-> <<>>, notified |-> <<>>]

\* line 214: `not dst` on a pathlib.Path, which defines neither __bool__
\* nor __len__: every Path is truthy, Path("") included
NotDst(dst) == FALSE

\* the directories dst.mkdir(parents=True, exist_ok=True) leaves in place
Parents(dst) == { SubSeq(dst, 1, k) : k \in 0..Len(dst) }

\* mkdir raises FileExistsError / NotADirectoryError
MkdirRaises(dst) == \E d \in Parents(dst) : is_file(d)

start_conversion ==
    LET src == Path(strip(src_var))
        dst == Path(strip(dst_var))
        items == collect_images(src, recursive_var)
    IN  IF ~exists(src)
        THEN /\ dialog' = "Error: Pick a valid source file or folder"
             /\ UNCHANGED <<dirs, btn_convert, prog, status_var, threads>>
        ELSE IF NotDst(dst)
        THEN /\ dialog' = "Error: Pick a destination folder"
             /\ UNCHANGED <<dirs, btn_convert, prog, status_var, threads>>
        ELSE IF MkdirRaises(dst)
        THEN /\ dialog' = "Traceback: FileExistsError"
             /\ UNCHANGED <<dirs, btn_convert, prog, status_var, threads>>
        ELSE IF items = <<>>
        THEN /\ dirs' = dirs \cup Parents(dst)
             /\ dialog' = "Nothing to do: No supported images found"
             /\ UNCHANGED <<btn_convert, prog, status_var, threads>>
        ELSE /\ dirs' = dirs \cup Parents(dst)
             /\ btn_convert' = "disabled"
             /\ prog' = [value |-> 0, maximum |-> Len(items)]
             /\ status_var' = <<"Converting", Len(items)>>
             /\ threads' = Append(threads, NewThread(items, dst))
             /\ dialog' = "none"

StartFrame == UNCHANGED <<fs, formVars, afterq, faults, edits, call, ret>>

\* line 166: the Convert button, which Tk ignores while it is disabled
ClickConvert ==
    /\ btn_convert = "normal"
    /\ Len(threads) < MaxThreads
    /\ start_conversion
    /\ StartFrame

\* line 111: Actions > Convert
MenuConvert ==
    /\ Len(threads) < MaxThreads
    /\ start_conversion
    /\ StartFrame

\* line 106: the <Control-Return> binding
KeyConvert ==
    /\ Len(threads) < MaxThreads
    /\ start_conversion
    /\ StartFrame

----------------------------------------------------------------------------
(* The user edits the form                                                 *)

EditFrame ==
    /\ edits < MaxEdits
    /\ edits' = edits + 1
    /\ UNCHANGED <<fs, dirs, status_var, prog, btn_convert, dialog, afterq,
                   threads, faults, call, ret>>

SetSrc ==
    /\ \E text \in SrcTexts : src_var' = text
    /\ UNCHANGED <<dst_var, recursive_var, overwrite_var, keep_exif_var,
                   lossless_var, quality_var, speed_var, prefix_var>>
    /\ EditFrame

SetDst ==
    /\ \E text \in DstTexts : dst_var' = text
    /\ UNCHANGED <<src_var, recursive_var, overwrite_var, keep_exif_var,
                   lossless_var, quality_var, speed_var, prefix_var>>
    /\ EditFrame

SetPrefix ==
    /\ \E text \in PrefixTexts : prefix_var' = text
    /\ UNCHANGED <<src_var, dst_var, recursive_var, overwrite_var,
                   keep_exif_var, lossless_var, quality_var, speed_var>>
    /\ EditFrame

ToggleOverwrite ==
    /\ overwrite_var' = ~overwrite_var
    /\ UNCHANGED <<src_var, dst_var, recursive_var, keep_exif_var,
                   lossless_var, quality_var, speed_var, prefix_var>>
    /\ EditFrame

ToggleRecursive ==
    /\ recursive_var' = ~recursive_var
    /\ UNCHANGED <<src_var, dst_var, overwrite_var, keep_exif_var,
                   lossless_var, quality_var, speed_var, prefix_var>>
    /\ EditFrame

ToggleKeepExif ==
    /\ keep_exif_var' = ~keep_exif_var
    /\ UNCHANGED <<src_var, dst_var, recursive_var, overwrite_var,
                   lossless_var, quality_var, speed_var, prefix_var>>
    /\ EditFrame

SetQuality ==
    /\ \E q \in QualityValues : quality_var' = q
    /\ UNCHANGED <<src_var, dst_var, recursive_var, overwrite_var,
                   keep_exif_var, lossless_var, speed_var, prefix_var>>
    /\ EditFrame

----------------------------------------------------------------------------
(* The application                                                         *)

Worker(t) ==
    \/ Open(t)
    \/ Check(t)
    \/ Probe(t)
    \/ ExistsRaises(t)
    \/ Save(t)
    \/ SaveFails(t)
    \/ Progress(t)
    \/ Summary(t)

Next ==
    \/ ClickConvert
    \/ MenuConvert
    \/ KeyConvert
    \/ SetSrc
    \/ SetDst
    \/ SetPrefix
    \/ ToggleOverwrite
    \/ ToggleRecursive
    \/ ToggleKeepExif
    \/ SetQuality
    \/ RunAfter
    \/ \E t \in 1..MaxThreads : Worker(t)

Spec == Init /\ [][Next]_vars

----------------------------------------------------------------------------
(* Runs started with the Convert button only, over a destination that     *)
(* may already hold outputs                                                *)

N_a_avif == <<"a", ".", "a", "v", "i", "f">>
N_a_2_avif == <<"a", "_", "2", ".", "a", "v", "i", "f">>
N_a_2_png == <<"a", "_", "2", ".", "p", "n", "g">>

OldAvif == [kind |-> "avif", id |-> "old", mode |-> "RGB",
            params |-> save_avif(<<>>, 80, 6, FALSE, TRUE)]

\* the source tree of these runs
SeqFs == (<<N_s, N_a_2_png>> :> Img("a2", TRUE, "RGBA", Icc1)) @@ InitFs

SeqOutputs == { N_a_avif, N_a_2_avif }
SeqSrcTexts == { N_s, N_s \o <<"/">> \o N_a_png }
SeqDstTexts == { <<>>, N_s }

InitSeq ==
    /\ \E src \in SeqSrcTexts, dst \in SeqDstTexts, prefix \in PrefixTexts,
          overwrite \in BOOLEAN, pre \in SUBSET SeqOutputs :
          /\ src_var = src
          /\ dst_var = dst
          /\ prefix_var = prefix
          /\ overwrite_var = overwrite
          /\ fs = [p \in {Path(dst) \o <<nm>> : nm \in pre} |-> OldAvif] @@ SeqFs
          /\ dirs = InitDirs \cup (IF pre = {} THEN {} ELSE Parents(Path(dst)))
    /\ recursive_var = TRUE
    /\ keep_exif_var = TRUE
    /\ lossless_var = FALSE
    /\ quality_var = 80
    /\ speed_var = 6
    /\ status_var = <<"Idle">>
    /\ prog = [value |-> 0, maximum |-> 100]
    /\ btn_convert = "normal"
    /\ dialog = "none"
    /\ afterq = <<>>
    /\ threads = <<>>
    /\ faults = 0
    /\ edits = 0
    /\ call = NoCall
    /\ ret = NoRet

NextSeq ==
    \/ ClickConvert
    \/ RunAfter
    \/ \E t \in 1..MaxThreads : Worker(t)

SpecSeq == InitSeq /\ [][NextSeq]_vars

----------------------------------------------------------------------------
(* collect_images called on its own                                        *)

N_a == <<"a">>
N_e == <<"e">>
N_x_png == <<"x", ".", "p", "n", "g">>
N_b_JPG == <<"b", ".", "J", "P", "G">>
N_o_avif == <<"o", ".", "a", "v", "i", "f">>
N_y_tif == <<"y", ".", "t", "i", "f">>
N_dot_png == <<".", "p", "n", "g">>
N_d_gif == <<"d", ".", "g", "i", "f">>

\* the files a tree may hold
CollectFiles ==
    <<N_s, N_a_png>> :> Img("ap", TRUE, "RGB", <<>>) @@
    <<N_s, N_a, N_x_png>> :> Img("x", TRUE, "RGB", <<>>) @@
    <<N_s, N_b_JPG>> :> Img("b", TRUE, "RGB", <<>>) @@
    <<N_s, N_n_txt>> :> Other @@
    <<N_s, N_o_avif>> :> OldAvif @@
    <<N_s, N_a, N_e, N_y_tif>> :> Img("y", TRUE, "RGB", <<>>) @@
    <<N_s, N_dot_png>> :> Img("h", TRUE, "RGB", <<>>)

\* its directories; s/d.gif is a directory with an image's name
CollectDirs == { <<>>, <<N_s>>, <<N_s, N_a>>, <<N_s, N_a, N_e>>, <<N_s, N_d_gif>> }

CollectSrcs ==
    { <<>>, <<N_s>>, <<N_s, N_a>>, <<N_s, N_d_gif>>, <<N_s, N_a_png>>,
      <<N_s, N_b_JPG>>, <<N_s, N_n_txt>>, <<N_s, N_dot_png>>, <<N_zz>> }

InitCollect ==
    /\ \E S \in SUBSET DOMAIN CollectFiles : fs = [p \in S |-> CollectFiles[p]]
    /\ dirs = CollectDirs
    /\ \E src \in CollectSrcs, recursive \in BOOLEAN :
          call = [fn |-> "collect_images", src |-> src, recursive |-> recursive]
    /\ ret = NoRet
    /\ InitApp

CallCollect ==
    /\ call.fn = "collect_images"
    /\ ~ret.done
    /\ ret' = [done |-> TRUE, value |-> collect_images(call.src, call.recursive)]
    /\ UNCHANGED <<fs, dirs, formVars, status_var, prog, btn_convert, dialog,
                   afterq, threads, faults, edits, call>>

NextCollect == CallCollect

SpecCollect == InitCollect /\ [][NextCollect]_vars

----------------------------------------------------------------------------
(* save_avif called on its own                                             *)

\* im.info of the image handed over: EXIF bytes (possibly empty) and an
\* ICC profile, each present or absent
Infos ==
    { e @@ i : e \in { <<>>, "exif" :> "E1", "exif" :> "" },
               i \in { <<>>, "icc_profile" :> "I1", "icc_profile" :> "I2" } }

InitSave ==
    /\ \E info \in Infos, quality \in {0, 80, 100}, speed \in {0, 6, 10},
          lossless \in BOOLEAN, keep_exif \in BOOLEAN :
          call = [fn |-> "save_avif", info |-> info, quality |-> quality,
                  speed |-> speed, lossless |-> lossless, keep_exif |-> keep_exif]
    /\ ret = NoRet
    /\ fs = InitFs
    /\ dirs = InitDirs
    /\ InitApp

CallSave ==
    /\ call.fn = "save_avif"
    /\ ~ret.done
    /\ ret' = [done |-> TRUE,
               value |-> save_avif(call.info, call.quality, call.speed,
                                   call.lossless, call.keep_exif)]
    /\ UNCHANGED <<fs, dirs, formVars, status_var, prog, btn_convert, dialog,
                   afterq, threads, faults, edits, call>>

NextSave == CallSave

SpecSave == InitSave /\ [][NextSave]_vars

----------------------------------------------------------------------------
(* Properties                                                              *)

Range(f) == { f[i] : i \in DOMAIN f }
Ended(T) == T.pc \in {"done", "crashed"}
Alive(T) == ~Ended(T)

\* thread t takes the step that writes its output file
Writes(t) ==
    /\ threads[t].pc = "save"
    /\ threads'[t].pc = "progress"
    /\ threads'[t].msg = "None"

\* C1: with overwrite disabled, a convert_one call that writes its output
\* leaves every file that existed before the write in place with unchanged
\* content: it only ever writes to a path that did not exist.
C1_NoOverwriteWhenDisabled ==
    [][\A t \in 1..Len(threads) :
          (Writes(t) /\ ~threads[t].overwrite) =>
             \A p \in DOMAIN fs : p \in DOMAIN fs' /\ fs'[p] = fs[p]]_vars

\* the name the claim gives the output of item `src`: prefix, "_" and stem
\* when a prefix is given, the stem alone otherwise
ClaimedStem(T) ==
    LET src == T.items[T.i]
        nm == src[Len(src)]
        dot == CHOOSE i \in 0..Len(nm) :
                  /\ i > 0 => nm[i] = "."
                  /\ \A j \in (i + 1)..Len(nm) : nm[j] # "."
        st == IF 1 < dot /\ dot < Len(nm) THEN SubSeq(nm, 1, dot - 1) ELSE nm
    IN  IF T.prefix = <<>> THEN st ELSE T.prefix \o <<"_">> \o st

Avif5 == <<".", "a", "v", "i", "f">>

ClaimedTarget(T) ==
    LET st == ClaimedStem(T)
        base == T.dst \o <<st \o Avif5>>
        numbered(k) == T.dst \o <<st \o <<"_">> \o IntToStr(k) \o Avif5>>
        free == { k \in 2..(Cardinality(DOMAIN fs) + 2) :
                    numbered(k) \notin DOMAIN fs \cup dirs }
        least == CHOOSE k \in free : \A j \in free : k <= j
    IN  IF T.overwrite \/ base \notin DOMAIN fs \cup dirs
        THEN base
        ELSE numbered(least)

\* C2: the path convert_one settles on, and then writes and nothing else,
\* is {prefix}_{stem}.avif ({stem}.avif without a prefix) if overwrite is
\* enabled or that path does not exist, and otherwise {name}_{k}.avif for
\* the smallest k >= 2 whose path does not exist.
C2_WritesResolvedName ==
    [][\A t \in 1..Len(threads) :
          /\ (threads[t].pc \in {"check", "probe"} /\ threads'[t].pc = "save")
                => threads'[t].out = ClaimedTarget(threads[t])
          /\ Writes(t) =>
                /\ threads[t].out \in DOMAIN fs'
                /\ \A p \in (DOMAIN fs \cup DOMAIN fs') \ {threads[t].out} :
                      p \in DOMAIN fs /\ p \in DOMAIN fs' /\ fs'[p] = fs[p]]_vars

\* C2 witness: the same source converted twice with overwrite disabled has
\* given a.avif and then a_2.avif.
C2_Witness ==
    /\ Len(threads) = 2
    /\ threads[2].pc = "done"
    /\ ~threads[1].overwrite /\ ~threads[2].overwrite
    /\ threads[1].items = <<<<N_s, N_a_png>>>>
    /\ threads[2].items = <<<<N_s, N_a_png>>>>
    /\ threads[1].out = threads[1].dst \o <<N_a_avif>>
    /\ threads[2].out = threads[2].dst \o <<N_a_2_avif>>
    /\ threads[1].dst = threads[2].dst
    /\ threads[1].out \in DOMAIN fs /\ fs[threads[1].out].id = "ap"
    /\ threads[2].out \in DOMAIN fs /\ fs[threads[2].out].id = "ap"

\* C3: no error raised while one item is processed leaves the batch loop:
\* no worker thread dies of an exception.
C3_NoErrorLeavesTheLoop ==
    \A t \in 1..Len(threads) : threads[t].pc # "crashed"

\* C4: when a run over N candidates has ended, every candidate has given
\* exactly one result, and failed is the number of error results.
C4_OneResultPerCandidate ==
    \A t \in 1..Len(threads) :
       LET T == threads[t]
       IN  Ended(T) =>
              /\ Len(T.results) = Len(T.items)
              /\ T.errors = Cardinality({k \in 1..Len(T.results) :
                                            T.results[k] # "None"})

\* the source path does not exist, or the destination is missing (an empty
\* field) or invalid (a regular file stands where the directory should be)
BadPaths ==
    \/ Path(strip(src_var)) \notin DOMAIN fs \cup dirs
    \/ strip(dst_var) = <<>>
    \/ \E k \in 0..Len(Path(strip(dst_var))) :
          SubSeq(Path(strip(dst_var)), 1, k) \in DOMAIN fs

\* C6: while the source path does not exist or the destination is missing
\* or invalid, nothing is attempted: no directory is created and no worker
\* is started.
C6_BadPathsStartNothing ==
    [][BadPaths => (dirs' = dirs /\ Len(threads') = Len(threads))]_vars

\* C7: the progress notifications of a run are 1, 2, ... in that order, and
\* when the run has ended there is one for each of its N candidates.
C7_ProgressOneToN ==
    \A t \in 1..Len(threads) :
       LET T == threads[t]
       IN  /\ T.notified = [k \in 1..Len(T.notified) |-> k]
           /\ Ended(T) => Len(T.notified) = Len(T.items)

\* C8: at most one conversion worker exists at any time.
C8_AtMostOneWorker ==
    Cardinality({t \in 1..Len(threads) : Alive(threads[t])}) <= 1

----------------------------------------------------------------------------
(* Properties of collect_images                                            *)

ExtWords ==
    { <<"j", "p", "g">>, <<"j", "p", "e", "g">>, <<"p", "n", "g">>,
      <<"w", "e", "b", "p">>, <<"b", "m", "p">>, <<"t", "i", "f">>,
      <<"t", "i", "f", "f">>, <<"g", "i", "f">> }

\* the file's lower-cased extension is a recognized one; the extension is
\* what follows the last dot of the name, where a name's leading dot and a
\* trailing dot start none
Recognized(p) ==
    LET nm == p[Len(p)]
    IN  \E i \in 2..(Len(nm) - 1) :
           /\ nm[i] = "."
           /\ \A j \in (i + 1)..Len(nm) : nm[j] # "."
           /\ [k \in 1..(Len(nm) - i) |-> LowerChar(nm[i + k])] \in ExtWords

\* the files in scope of a directory
InScope(p, src, recursive) ==
    /\ Len(p) > Len(src)
    /\ \A k \in 1..Len(src) : p[k] = src[k]
    /\ ~recursive => Len(p) = Len(src) + 1

\* what the claim says collect_images returns, as a set
ClaimedImages(src, recursive) ==
    IF src \in DOMAIN fs THEN (IF Recognized(src) THEN {src} ELSE {})
    ELSE IF src \notin dirs THEN {}
    ELSE { p \in DOMAIN fs : InScope(p, src, recursive) /\ Recognized(p) }

\* a before b as strings, character by character
StringBefore(a, b) ==
    \E k \in 0..Len(a) :
       /\ k <= Len(b)
       /\ \A j \in 1..k : a[j] = b[j]
       /\ \/ k = Len(a) /\ k < Len(b)
          \/ k < Len(a) /\ k < Len(b) /\ Ord[a[k + 1]] < Ord[b[k + 1]]

\* p before q component by component, each component compared as a string
PartsBefore(p, q) ==
    \E k \in 0..Len(p) :
       /\ k <= Len(q)
       /\ \A j \in 1..k : p[j] = q[j]
       /\ \/ k = Len(p) /\ k < Len(q)
          \/ k < Len(p) /\ k < Len(q) /\ StringBefore(p[k + 1], q[k + 1])

ReturnsClaimedImages ==
    /\ Range(ret.value) = ClaimedImages(call.src, call.recursive)
    /\ Len(ret.value) = Cardinality(Range(ret.value))

\* C5 as stated: collect_images returns exactly the recognized files in
\* scope, sorted lexicographically by full path.
C5_SortedByFullPath ==
    ret.done =>
       /\ ReturnsClaimedImages
       /\ \A i, j \in 1..Len(ret.value) :
             i < j => StringBefore(PathStr(ret.value[i]), PathStr(ret.value[j]))

\* C5 amended: collect_images returns exactly the recognized files in
\* scope, sorted by path compared component by component.
C5_SortedByParts ==
    ret.done =>
       /\ ReturnsClaimedImages
       /\ \A i, j \in 1..Len(ret.value) :
             i < j => PartsBefore(ret.value[i], ret.value[j])

\* C5 witness: a recursive scan of a directory that holds a.png next to the
\* directory a, an upper-case extension, and files that are not images.
C5_Witness ==
    /\ ret.done
    /\ call.src = <<N_s>>
    /\ call.recursive
    /\ DOMAIN fs = DOMAIN CollectFiles
    /\ ret.value = << <<N_s, N_a, N_e, N_y_tif>>, <<N_s, N_a, N_x_png>>,
                      <<N_s, N_a_png>>, <<N_s, N_b_JPG>> >>

----------------------------------------------------------------------------
(* Properties of save_avif                                                 *)

----------------------------------------------------------------------------
(* Inputs and outputs                                                      *)

Roots == dirs \cup DOMAIN fs

\* every path some collect_images call returns in this state
Discovered ==
    UNION { Range(collect_images(src, recursive)) :
               src \in Roots, recursive \in BOOLEAN }

\* C10: a run never modifies its inputs: every source file keeps its
\* content, every path convert_one is about to write ends in .avif and is
\* returned by no collect_images call, and no converted output is a
\* candidate of any later discovery.
C10_InputsNeverWritten ==
    LET found == Discovered
    IN  /\ \A p \in DOMAIN SeqFs : p \in DOMAIN fs /\ fs[p] = SeqFs[p]
        /\ \A t \in 1..Len(threads) :
              threads[t].pc = "save" =>
                 /\ suffix(threads[t].out) = Avif5
                 /\ threads[t].out \notin found
        /\ \A p \in DOMAIN fs : fs[p].kind = "avif" => p \notin found

\* C10 witness: the destination is the source directory, a first run has
\* written its outputs there with a prefix and overwrite enabled, and a
\* second run is about to write again.
C10_Witness ==
    /\ Len(threads) = 2
    /\ threads[1].dst = <<N_s>>
    /\ threads[2].dst = <<N_s>>
    /\ threads[2].overwrite
    /\ threads[2].prefix = N_p
    /\ threads[2].pc = "save"
    /\ threads[2].out \in DOMAIN fs
    /\ fs[threads[2].out].id # "old"
    /\ Len(threads[2].items) = Len(threads[1].items)

====
